---- MODULE Spec2Model ----
(***************************************************************************)
(* Gantt_Project (src/app.py): the task store, the hierarchical schedule   *)
(* aggregation and baseline merge of GET /api/data, the task and link CRUD *)
(* handlers and baseline creation, as a state machine over the database    *)
(* tables and the last HTTP request and response.                          *)
(*                                                                         *)
(* Representation.  A date object is a day offset from 2025-09-29; its     *)
(* string form 'YYYY-MM-DD' is the tuple <<year, month, day>>.  A form or  *)
(* query field is an option: {} when the request omits it, {v} when it     *)
(* supplies v.  A progress ratio (form field, JSON number) is written in   *)
(* hundredths: 58 stands for "0.58".  SQL NULL in an integer column is     *)
(* NoParent.                                                               *)
(***************************************************************************)
EXTENDS Integers, Sequences, FiniteSets, TLC

VARIABLES tasks, links, baselines, baseline_tasks, request, response,
          fresh, createdAfter, deleted

store == <<tasks, links, baselines, baseline_tasks>>
vars == <<tasks, links, baselines, baseline_tasks, request, response,
          fresh, createdAfter, deleted>>

(* ------------------------------ bounds --------------------------------- *)
MaxDay == 2
MaxTasks == 3
MaxBaselines == 2
MaxLinks == 1
NoParent == 0

Days == 0..MaxDay
TaskIds == 1..MaxTasks

(* ------------------------------ options -------------------------------- *)
Opt(S) == {{}} \cup {{x} : x \in S}
The(o) == CHOOSE x \in o : TRUE
Get(o, default) == IF o = {} THEN default ELSE The(o)

(* ------------------------------ helpers -------------------------------- *)
date_to_str(date_obj) ==
    IF date_obj + 29 <= 30 THEN <<2025, 9, date_obj + 29>>
                           ELSE <<2025, 10, date_obj - 1>>

str_to_date(date_str) ==
    IF date_str[2] = 9 THEN date_str[3] - 29 ELSE date_str[3] + 1

DecimalDigits == <<"0", "1", "2", "3", "4", "5", "6", "7", "8", "9">>
IntStr(n) == DecimalDigits[n + 1]
IntegerAffinity(s) == CHOOSE n \in 0..9 : IntStr(n) = s

\* int(float(x) * 100) for x the double nearest k/100, 0 <= k <= 100:
\* 0.29*100, 0.57*100 and 0.58*100 fall just below the integer.
TruncatedBelow == {29, 57, 58}
PercentOf(k) == IF k \in TruncatedBelow THEN k - 1 ELSE k

\* round(q / 100, 2) in hundredths for the double q = num / den >= 0.
\* A tie k + 0.5 is decided by the double nearest (k + 0.5) / 100.
TieUp == {0, 2, 3, 5, 6, 8, 9, 11, 13, 16, 19, 22, 25, 26, 27, 31, 32, 33,
          37, 38, 39, 40, 44, 45, 46, 50, 51, 52, 53, 54, 55, 63, 64, 65,
          66, 67, 68, 75, 76, 77, 78, 79, 80, 87, 88, 89, 90, 91, 92, 93}
Round2(num, den) ==
    LET k == num \div den
        r == 2 * (num % den)
    IN  IF r < den THEN k
        ELSE IF r > den THEN k + 1
        ELSE IF k \in TieUp THEN k + 1 ELSE k

Max(S) == CHOOSE x \in S : \A y \in S : y <= x
NextId(table) == IF DOMAIN table = {} THEN 1 ELSE Max(DOMAIN table) + 1

RECURSIVE OrderById(_)
OrderById(S) ==
    IF S = {} THEN <<>>
    ELSE LET m == Max(S) IN Append(OrderById(S \ {m}), m)

RECURSIVE min(_)
min(s) ==
    IF Len(s) = 1 THEN s[1]
    ELSE LET m == min(Tail(s)) IN IF m < s[1] THEN m ELSE s[1]

RECURSIVE max(_)
max(s) ==
    IF Len(s) = 1 THEN s[1]
    ELSE LET m == max(Tail(s)) IN IF m > s[1] THEN m ELSE s[1]

RECURSIVE sum(_)
sum(s) == IF s = <<>> THEN 0 ELSE s[1] + sum(Tail(s))

Map(s, F(_)) == [i \in 1..Len(s) |-> F(s[i])]

(* --------------------------- GET /api/data ----------------------------- *)
tasks_from_db(ts) == Map(OrderById(DOMAIN ts), LAMBDA i : ts[i])

children_map(rows) ==
    [p \in {rows[i].parent_id : i \in 1..Len(rows)} \ {NoParent} |->
        Map(SelectSeq(rows, LAMBDA t : t.parent_id = p), LAMBDA t : t.id)]

child_tasks(task, tasks_map, cmap) ==
    Map(SelectSeq(cmap[task.id], LAMBDA c : c \in DOMAIN tasks_map),
        LAMBDA c : tasks_map[c])

days(ct) == ct.end - ct.start

child_tasks_with_duration(cts) == SelectSeq(cts, LAMBDA ct : days(ct) > 0)

total_duration(cwd) == sum(Map(cwd, days))

\* Mutant: the progress sum without the duration weights.
weighted_progress_sum_flat(cwd) == sum(Map(cwd, LAMBDA ct : ct.progress))

weighted_progress_sum(cwd) == sum(Map(cwd, LAMBDA ct : days(ct) * ct.progress))

\* Mutant: the rollup without the test of the kind.
RollsUp_any(task, cmap) == task.id \in DOMAIN cmap

RollsUp(task, cmap) == task.task_type = "project" /\ task.id \in DOMAIN cmap

\* Mutant: the minimum starts from the project's own start.
start_date_to_use_own(task, tasks_map, cmap) ==
    LET cts == IF RollsUp(task, cmap) THEN child_tasks(task, tasks_map, cmap) ELSE <<>>
    IN  min(<<task.start>> \o Map(cts, LAMBDA ct : ct.start))

start_date_to_use(task, tasks_map, cmap) ==
    LET cts == IF RollsUp(task, cmap) THEN child_tasks(task, tasks_map, cmap) ELSE <<>>
    IN  IF cts # <<>> THEN min(Map(cts, LAMBDA ct : ct.start)) ELSE task.start

end_date_to_use(task, tasks_map, cmap) ==
    LET cts == IF RollsUp(task, cmap) THEN child_tasks(task, tasks_map, cmap) ELSE <<>>
    IN  IF cts # <<>> THEN max(Map(cts, LAMBDA ct : ct.end)) ELSE task.end

\* The response's progress, round(progress, 2), in hundredths.
progress_to_use(task, tasks_map, cmap) ==
    LET cwd == IF RollsUp(task, cmap)
               THEN child_tasks_with_duration(child_tasks(task, tasks_map, cmap))
               ELSE <<>>
    IN  IF cwd # <<>> /\ total_duration(cwd) > 0
        THEN Round2(weighted_progress_sum(cwd), total_duration(cwd))
        ELSE Round2(task.progress, 1)

\* Mutant: every task without children is downgraded to "task".
task_type_to_use_any(task, cmap) ==
    IF task.id \notin DOMAIN cmap THEN "task" ELSE task.task_type

task_type_to_use(task, cmap) ==
    IF task.task_type = "project" /\ task.id \notin DOMAIN cmap
    THEN "task"
    ELSE task.task_type

task_data(task, tasks_map, cmap) ==
    LET start == start_date_to_use(task, tasks_map, cmap)
        end   == end_date_to_use(task, tasks_map, cmap)
    IN  [id            |-> task.id,
         text          |-> task.name,
         start_date    |-> date_to_str(start),
         end_date      |-> date_to_str(end),
         duration      |-> end - start,
         progress      |-> progress_to_use(task, tasks_map, cmap),
         parent        |-> IF task.parent_id # NoParent THEN task.parent_id ELSE 0,
         type          |-> task_type_to_use(task, cmap),
         assignee      |-> task.assignee,
         status        |-> task.status,
         planned_start |-> {},
         planned_end   |-> {}]

tasks_data(ts) ==
    LET rows == tasks_from_db(ts)
        cmap == children_map(rows)
    IN  Map(rows, LAMBDA task : task_data(task, ts, cmap))

links_data(ls) ==
    Map(OrderById(DOMAIN ls),
        LAMBDA i : [id |-> i, source |-> ls[i].source,
                    target |-> ls[i].target, type |-> ls[i].type])

\* One pass of the inner loop: the first entry whose id matches is annotated.
annotate(data, bl_task) ==
    [i \in 1..Len(data) |->
        IF data[i].id = bl_task.original_task_id
           /\ \A j \in 1..(i - 1) : data[j].id # bl_task.original_task_id
        THEN [data[i] EXCEPT !.planned_start = {date_to_str(bl_task.start)},
                             !.planned_end = {date_to_str(bl_task.end)}]
        ELSE data[i]]

RECURSIVE merge_baseline(_, _)
merge_baseline(data, rows) ==
    IF rows = <<>> THEN data
    ELSE merge_baseline(annotate(data, rows[1]), Tail(rows))

baseline_rows(bts, baseline_id) ==
    SelectSeq(bts, LAMBDA r : r.baseline_id = IntegerAffinity(baseline_id))

get_data_json(ts, ls, bts, baseline_id) ==
    [data  |-> IF baseline_id # {}
               THEN merge_baseline(tasks_data(ts), baseline_rows(bts, The(baseline_id)))
               ELSE tasks_data(ts),
     links |-> links_data(ls)]

get_data(baseline_id) ==
    /\ request' = [op |-> "get_data", baseline_id |-> baseline_id]
    /\ response' = get_data_json(tasks, links, baseline_tasks, baseline_id)
    /\ UNCHANGED store

(* --------------------------- task handlers ----------------------------- *)
parent_id_of(form) ==
    IF form.parent # {} /\ The(form.parent) # "0"
    THEN IntegerAffinity(The(form.parent))
    ELSE NoParent

\* POST /api/task.  A form without text, start_date or end_date raises
\* (strptime of None, NOT NULL name): HTTP 500 and nothing is stored.
add_task(form) ==
    /\ request' = [op |-> "add_task", form |-> form]
    /\ IF form.text = {} \/ form.start_date = {} \/ form.end_date = {}
       THEN /\ response' = [status |-> 500]
            /\ UNCHANGED store
       ELSE LET new_task ==
                    [id        |-> NextId(tasks),
                     parent_id |-> parent_id_of(form),
                     name      |-> The(form.text),
                     start     |-> str_to_date(The(form.start_date)),
                     end       |-> str_to_date(The(form.end_date)),
                     progress  |-> PercentOf(Get(form.progress, 0)),
                     assignee  |-> Get(form.assignee, ""),
                     status    |-> Get(form.status, "daegi"),
                     task_type |-> Get(form.type, "task")]
            IN  /\ tasks' = [i \in DOMAIN tasks \cup {new_task.id} |->
                                IF i = new_task.id THEN new_task ELSE tasks[i]]
                /\ response' = [action |-> "inserted", tid |-> new_task.id]
                /\ UNCHANGED <<links, baselines, baseline_tasks>>

\* PUT /api/task/<id>
update_task(id, form) ==
    /\ request' = [op |-> "update_task", id |-> id, form |-> form]
    /\ IF id \notin DOMAIN tasks
       THEN /\ response' = [action |-> "error"]
            /\ UNCHANGED store
       ELSE LET task == tasks[id]
                updated ==
                    [id        |-> task.id,
                     parent_id |-> parent_id_of(form),
                     name      |-> Get(form.text, task.name),
                     start     |-> str_to_date(Get(form.start_date, date_to_str(task.start))),
                     end       |-> str_to_date(Get(form.end_date, date_to_str(task.end))),
                     progress  |-> IF form.type # {"project"}
                                   THEN PercentOf(Get(form.progress, task.progress))
                                   ELSE task.progress,
                     assignee  |-> Get(form.assignee, task.assignee),
                     status    |-> Get(form.status, task.status),
                     task_type |-> Get(form.type, task.task_type)]
            IN  /\ tasks' = [tasks EXCEPT ![id] = updated]
                /\ response' = [action |-> "updated"]
                /\ UNCHANGED <<links, baselines, baseline_tasks>>

\* Mutant: the delete cascades to the snapshot rows of the task.
delete_task_cascade(id) ==
    /\ request' = [op |-> "delete_task", id |-> id]
    /\ IF id \notin DOMAIN tasks
       THEN /\ response' = [action |-> "error"]
            /\ UNCHANGED store
       ELSE /\ tasks' = [i \in DOMAIN tasks \ {id} |-> tasks[i]]
            /\ baseline_tasks' = SelectSeq(baseline_tasks, LAMBDA r : r.original_task_id # id)
            /\ response' = [action |-> "deleted"]
            /\ UNCHANGED <<links, baselines>>

\* Mutant: the delete is answered but never committed.
delete_task_uncommitted(id) ==
    /\ request' = [op |-> "delete_task", id |-> id]
    /\ response' = [action |-> IF id \in DOMAIN tasks THEN "deleted" ELSE "error"]
    /\ UNCHANGED store

\* DELETE /api/task/<id>.  No cascade: children keep their parent_id,
\* links and baseline rows keep their references.
delete_task(id) ==
    /\ request' = [op |-> "delete_task", id |-> id]
    /\ IF id \notin DOMAIN tasks
       THEN /\ response' = [action |-> "error"]
            /\ UNCHANGED store
       ELSE /\ tasks' = [i \in DOMAIN tasks \ {id} |-> tasks[i]]
            /\ response' = [action |-> "deleted"]
            /\ UNCHANGED <<links, baselines, baseline_tasks>>

(* --------------------------- link handlers ----------------------------- *)
\* A link endpoint as stored: NULL ({}) or the integer the string denotes.
ForeignKey(field) == {IntegerAffinity(x) : x \in field}

\* POST /api/link.  The client may name the id; a taken id violates the
\* primary key: HTTP 500 and nothing is stored.
add_link(form) ==
    LET new_id == IF form.id = {} THEN NextId(links) ELSE IntegerAffinity(The(form.id))
    IN  /\ request' = [op |-> "add_link", form |-> form]
        /\ IF new_id \in DOMAIN links
           THEN /\ response' = [status |-> 500]
                /\ UNCHANGED store
           ELSE /\ links' = [i \in DOMAIN links \cup {new_id} |->
                                IF i = new_id
                                THEN [source |-> ForeignKey(form.source),
                                      target |-> ForeignKey(form.target),
                                      type   |-> form.type]
                                ELSE links[i]]
                /\ response' = [action |-> "inserted", tid |-> new_id]
                /\ UNCHANGED <<tasks, baselines, baseline_tasks>>

\* PUT /api/link/<id>
update_link(id, form) ==
    /\ request' = [op |-> "update_link", id |-> id, form |-> form]
    /\ IF id \notin DOMAIN links
       THEN /\ response' = [action |-> "error"]
            /\ UNCHANGED store
       ELSE /\ links' = [links EXCEPT ![id] =
                            [source |-> IF form.source = {} THEN @.source
                                        ELSE ForeignKey(form.source),
                             target |-> IF form.target = {} THEN @.target
                                        ELSE ForeignKey(form.target),
                             type   |-> IF form.type = {} THEN @.type ELSE form.type]]
            /\ response' = [action |-> "updated"]
            /\ UNCHANGED <<tasks, baselines, baseline_tasks>>

\* DELETE /api/link/<id>
delete_link(id) ==
    /\ request' = [op |-> "delete_link", id |-> id]
    /\ IF id \notin DOMAIN links
       THEN /\ response' = [action |-> "error"]
            /\ UNCHANGED store
       ELSE /\ links' = [i \in DOMAIN links \ {id} |-> links[i]]
            /\ response' = [action |-> "deleted"]
            /\ UNCHANGED <<tasks, baselines, baseline_tasks>>

(* ------------------------- POST /api/baselines ------------------------- *)
\* Mutant: the snapshot row takes its end from the task's start.
create_baseline_start_twice(name, today) ==
    LET new_id == NextId(baselines)
        all_tasks == tasks_from_db(tasks)
    IN  /\ request' = [op |-> "create_baseline", name |-> name]
        /\ baselines' = [b \in DOMAIN baselines \cup {new_id} |->
                            IF b = new_id
                            THEN [id |-> new_id,
                                  name |-> [text |-> "Baseline ", date |-> {date_to_str(today)}]]
                            ELSE baselines[b]]
        /\ baseline_tasks' = baseline_tasks \o
              [i \in 1..Len(all_tasks) |->
                  [id |-> Len(baseline_tasks) + i, baseline_id |-> new_id,
                   original_task_id |-> all_tasks[i].id,
                   start |-> all_tasks[i].start, end |-> all_tasks[i].start]]
        /\ response' = [message  |-> "Baseline created successfully!",
                        baseline |-> [id |-> new_id, name |-> baselines'[new_id].name]]
        /\ UNCHANGED <<tasks, links>>

\* The default name is "Baseline " followed by today's ISO date.
create_baseline(name, today) ==
    LET new_baseline ==
            [id   |-> NextId(baselines),
             name |-> IF name = {} THEN [text |-> "Baseline ", date |-> {date_to_str(today)}]
                                   ELSE [text |-> The(name), date |-> {}]]
        all_tasks == tasks_from_db(tasks)
        rows == [i \in 1..Len(all_tasks) |->
                    [id               |-> Len(baseline_tasks) + i,
                     baseline_id      |-> new_baseline.id,
                     original_task_id |-> all_tasks[i].id,
                     start            |-> all_tasks[i].start,
                     end              |-> all_tasks[i].end]]
    IN  /\ request' = [op |-> "create_baseline", name |-> name]
        /\ baselines' = [b \in DOMAIN baselines \cup {new_baseline.id} |->
                            IF b = new_baseline.id THEN new_baseline ELSE baselines[b]]
        /\ baseline_tasks' = baseline_tasks \o rows
        /\ response' = [message  |-> "Baseline created successfully!",
                        baseline |-> [id |-> new_baseline.id, name |-> new_baseline.name]]
        /\ UNCHANGED <<tasks, links>>

(* ------------------------------ history -------------------------------- *)
\* fresh: the baselines created since the last task write.
\* createdAfter[b]: the stored tasks that were created after baseline b.
\* deleted: <<id, parent_id>> of every task whose DELETE was answered
\* "deleted" and whose id no later POST was answered with.
TaskWrite ==
    \/ request'.op = "add_task" /\ tasks' # tasks
    \/ request'.op = "update_task" /\ response'.action = "updated"
    \/ request'.op = "delete_task" /\ response'.action = "deleted"

TrackFresh ==
    fresh' = IF TaskWrite THEN {}
             ELSE fresh \cup (DOMAIN baselines' \ DOMAIN baselines)

TrackCreatedAfter ==
    createdAfter' =
        [b \in DOMAIN baselines' |->
            IF b \in DOMAIN baselines
            THEN (createdAfter[b] \cap DOMAIN tasks') \cup (DOMAIN tasks' \ DOMAIN tasks)
            ELSE {}]

TrackDeleted ==
    deleted' =
        IF request'.op = "delete_task" /\ response'.action = "deleted"
        THEN deleted \cup {<<request'.id, tasks[request'.id].parent_id>>}
        ELSE IF request'.op = "add_task" /\ "tid" \in DOMAIN response'
        THEN {d \in deleted : d[1] # response'.tid}
        ELSE deleted

NoHistory == UNCHANGED <<fresh, createdAfter, deleted>>
DelHistory == TrackDeleted /\ UNCHANGED <<fresh, createdAfter>>
History == TrackFresh /\ TrackCreatedAfter /\ UNCHANGED deleted

(* ------------------------------ requests ------------------------------- *)
Init ==
    /\ tasks = <<>>
    /\ links = <<>>
    /\ baselines = <<>>
    /\ baseline_tasks = <<>>
    /\ request = [op |-> "none"]
    /\ response = [status |-> 200]
    /\ fresh = {}
    /\ createdAfter = <<>>
    /\ deleted = {}

Progresses == {0, 58}
ParentStrs == {IntStr(n) : n \in 0..(MaxTasks - 1)}
\* Date ranges of length 2, 1, 0 and -2 days.
Spans == {<<0, MaxDay>>, <<MaxDay - 1, MaxDay>>, <<MaxDay - 1, MaxDay - 1>>, <<MaxDay, 0>>}

NoForm ==
    [text |-> {}, start_date |-> {}, end_date |-> {}, progress |-> {},
     parent |-> {}, type |-> {}, assignee |-> {}, status |-> {}]

CompleteForms(spans, kinds) ==
    {[text |-> {"A"}, start_date |-> {date_to_str(s[1])}, end_date |-> {date_to_str(s[2])},
      progress |-> {p}, parent |-> {q}, type |-> {k}, assignee |-> {}, status |-> {}] :
        s \in spans, p \in Progresses, q \in ParentStrs, k \in kinds}

(* SpecAgg: the aggregation on every task set built from complete forms. *)
AggForms ==
    CompleteForms(Spans, {"task", "project"})
        \cup CompleteForms({s \in Spans : s[1] = s[2]}, {"milestone"})

AggAddTask ==
    \E form \in AggForms :
        NextId(tasks) <= MaxTasks /\ add_task(form) /\ NoHistory
AggGetData == get_data({}) /\ NoHistory

NextAgg == AggAddTask \/ AggGetData

SpecAgg == Init /\ [][NextAgg]_vars

(* SpecDel: creates, deletes and reads of tasks. *)
DelSpans == {s \in Spans : s[1] <= s[2]}

DelAddTask ==
    \E form \in CompleteForms(DelSpans, {"task", "project"}) :
        NextId(tasks) <= MaxTasks /\ add_task(form) /\ DelHistory
DelDeleteTask == \E id \in TaskIds : delete_task(id) /\ DelHistory
DelGetData == get_data({}) /\ DelHistory

NextDel == DelAddTask \/ DelDeleteTask \/ DelGetData

SpecDel == Init /\ [][NextDel]_vars

(* SpecCrud: creates, partial updates, deletes and reads of a few tasks. *)
CrudIds == 1..(MaxTasks - 1)
UpdateForms ==
    {NoForm} \cup {[NoForm EXCEPT !.end_date = {date_to_str(d)}] : d \in Days}
             \cup {[NoForm EXCEPT !.start_date = {date_to_str(MaxDay)}]}
             \cup {[NoForm EXCEPT !.type = {k}, !.progress = {0}] : k \in {"task", "project"}}
             \cup {[NoForm EXCEPT !.parent = {q}, !.text = {"B"}] : q \in ParentStrs}

CrudAddTask ==
    \E form \in CompleteForms(DelSpans, {"task", "project"}) \cup {NoForm} :
        NextId(tasks) \in CrudIds /\ add_task(form) /\ NoHistory
CrudUpdateTask == \E id \in CrudIds, form \in UpdateForms : update_task(id, form) /\ NoHistory
CrudDeleteTask == \E id \in CrudIds : delete_task(id) /\ NoHistory
CrudGetData == get_data({}) /\ NoHistory

NextCrud == CrudAddTask \/ CrudUpdateTask \/ CrudDeleteTask \/ CrudGetData

SpecCrud == Init /\ [][NextCrud]_vars

(* Spec: every handler, on a few tasks, links and baselines. *)
SnapIds == 1..(MaxTasks - 1)
SnapForms ==
    {[NoForm EXCEPT !.text = {"A"}, !.start_date = {date_to_str(0)},
                    !.end_date = {date_to_str(MaxDay)}, !.type = {"project"}],
     [NoForm EXCEPT !.text = {"A"}, !.start_date = {date_to_str(MaxDay - 1)},
                    !.end_date = {date_to_str(MaxDay - 1)}, !.parent = {IntStr(1)}]}
SnapUpdateForms == {[NoForm EXCEPT !.end_date = {date_to_str(MaxDay)}]}
LinkForms ==
    [id : {{IntStr(1)}}, source : {{IntStr(1)}}, target : {{IntStr(2)}}, type : {{"0"}}]
LinkUpdateForms == {[source |-> {}, target |-> {}, type |-> {"1"}]}
BaselineStrs == {IntStr(n) : n \in 1..MaxBaselines}
Clock == {0}

AddTask ==
    \E form \in SnapForms : NextId(tasks) \in SnapIds /\ add_task(form) /\ History
UpdateTask == \E id \in SnapIds, form \in SnapUpdateForms : update_task(id, form) /\ History
DeleteTask == \E id \in SnapIds : delete_task(id) /\ History
GetData == \E baseline_id \in Opt(BaselineStrs) : get_data(baseline_id) /\ History
AddLink ==
    \E form \in LinkForms :
        /\ IntegerAffinity(The(form.id)) <= MaxLinks
        /\ add_link(form) /\ History
UpdateLink == \E id \in 1..MaxLinks, form \in LinkUpdateForms : update_link(id, form) /\ History
DeleteLink == \E id \in 1..MaxLinks : delete_link(id) /\ History
CreateBaseline ==
    \E name \in {{}}, today \in Clock :
        NextId(baselines) <= MaxBaselines /\ create_baseline(name, today) /\ History

Next ==
    \/ AddTask \/ UpdateTask \/ DeleteTask \/ GetData
    \/ AddLink \/ UpdateLink \/ DeleteLink \/ CreateBaseline

Spec == Init /\ [][Next]_vars

(* ======================= properties of GET /api/data =================== *)
Answered == request.op = "get_data"
Entries == {response.data[i] : i \in 1..Len(response.data)}
HasEntry(id) == \E e \in Entries : e.id = id
EntryOf(id) == CHOOSE e \in Entries : e.id = id
Kids(ts, id) == {c \in DOMAIN ts : ts[c].parent_id = id}
Durationful(ts, id) == {c \in Kids(ts, id) : ts[c].end - ts[c].start > 0}
EveryTaskAnswered == \A id \in DOMAIN tasks : HasEntry(id)

\* C1: in the get_data response every stored project with at least one direct
\* child starts on the earliest stored start of its direct children and ends
\* on their latest stored end, whatever its own stored dates.
C1_ProjectDatesRollUp ==
    Answered =>
        /\ EveryTaskAnswered
        /\ \A id \in DOMAIN tasks :
              (tasks[id].task_type = "project" /\ Kids(tasks, id) # {}) =>
                  /\ \E c \in Kids(tasks, id) : EntryOf(id).start_date = date_to_str(tasks[c].start)
                  /\ \A c \in Kids(tasks, id) : tasks[c].start >= str_to_date(EntryOf(id).start_date)
                  /\ \E c \in Kids(tasks, id) : EntryOf(id).end_date = date_to_str(tasks[c].end)
                  /\ \A c \in Kids(tasks, id) : tasks[c].end <= str_to_date(EntryOf(id).end_date)

C1_Witness ==
    /\ Answered
    /\ \E id \in DOMAIN tasks :
          /\ tasks[id].task_type = "project"
          /\ \E c, d \in Kids(tasks, id) \ {id} : tasks[c].start < tasks[d].start
          /\ \E c, d \in Kids(tasks, id) \ {id} : tasks[c].end < tasks[d].end
          /\ EntryOf(id).start_date # date_to_str(tasks[id].start)
          /\ EntryOf(id).end_date # date_to_str(tasks[id].end)

\* C2: in the get_data response every stored task of kind "task" or
\* "milestone", with or without tasks naming it as parent, carries its own
\* stored start, end and progress and its own kind.
C2_LeafPassThrough ==
    Answered =>
        /\ EveryTaskAnswered
        /\ \A id \in DOMAIN tasks :
              tasks[id].task_type \in {"task", "milestone"} =>
                  /\ EntryOf(id).start_date = date_to_str(tasks[id].start)
                  /\ EntryOf(id).end_date = date_to_str(tasks[id].end)
                  /\ EntryOf(id).progress = tasks[id].progress
                  /\ EntryOf(id).type = tasks[id].task_type

C2_Witness ==
    /\ Answered
    /\ \E id \in DOMAIN tasks, c \in DOMAIN tasks :
          /\ tasks[id].task_type = "milestone"
          /\ c # id /\ tasks[c].parent_id = id
          /\ tasks[c].start < tasks[id].start
          /\ tasks[c].end - tasks[c].start > 0
          /\ tasks[c].progress # tasks[id].progress

\* C3: weighted-progress law.  A project whose durationful direct children
\* all have the same stored progress p is answered with progress p, whatever
\* their durations, its zero-duration children and its own stored progress.
C3_WeightedProgressLaw ==
    Answered =>
        \A id \in DOMAIN tasks : \A c \in Durationful(tasks, id) :
            (/\ tasks[id].task_type = "project"
             /\ \A d \in Durationful(tasks, id) : tasks[d].progress = tasks[c].progress)
                => HasEntry(id) /\ EntryOf(id).progress = tasks[c].progress

C3_Witness ==
    /\ Answered
    /\ \E id \in DOMAIN tasks : \E c, d \in Durationful(tasks, id) :
          /\ tasks[id].task_type = "project"
          /\ tasks[c].end - tasks[c].start # tasks[d].end - tasks[d].start
          /\ tasks[c].progress = tasks[d].progress
          /\ tasks[c].progress # tasks[id].progress
          /\ tasks[c].progress > 0
          /\ EntryOf(id).progress = tasks[c].progress

\* The derived set taken as the stored one: same ids and parents.
Restored(data) ==
    [id \in {data[i].id : i \in 1..Len(data)} |->
        LET e == CHOOSE x \in {data[i] : i \in 1..Len(data)} : x.id = id
        IN  [id |-> e.id, parent_id |-> e.parent, name |-> e.text,
             start |-> str_to_date(e.start_date), end |-> str_to_date(e.end_date),
             progress |-> e.progress, assignee |-> e.assignee, status |-> e.status,
             task_type |-> e.type]]
Derived(data) ==
    [i \in 1..Len(data) |->
        [id |-> data[i].id, start_date |-> data[i].start_date, end_date |-> data[i].end_date,
         progress |-> data[i].progress, type |-> data[i].type]]
SecondRun == Derived(tasks_data(Restored(response.data)))
ProjectWithKids(id) ==
    id \in DOMAIN tasks /\ tasks[id].task_type = "project" /\ Kids(tasks, id) # {}
TwoLevels(id) == ProjectWithKids(id) /\ \E c \in Kids(tasks, id) : ProjectWithKids(c)

\* C5 as stated: aggregating the aggregated set gives the first run's start,
\* end, progress and kind for every task of every task set.
C5_Idempotent == Answered => SecondRun = Derived(response.data)

\* C5 amended: aggregating the aggregated set gives the first run's start,
\* end, progress and kind for every task except a project that has a direct
\* child which is itself a project with a direct child.
C5_IdempotentOneLevel ==
    Answered =>
        /\ Len(SecondRun) = Len(response.data)
        /\ \A i \in 1..Len(response.data) :
              ~TwoLevels(response.data[i].id) => SecondRun[i] = Derived(response.data)[i]

C5_Witness ==
    /\ Answered
    /\ \E id \in DOMAIN tasks :
          /\ ProjectWithKids(id) /\ ~TwoLevels(id)
          /\ \E c \in Kids(tasks, id) : tasks[c].task_type = "project" /\ c # id
          /\ EntryOf(id).start_date # date_to_str(tasks[id].start)
          /\ EntryOf(id).progress # tasks[id].progress
          /\ SecondRun = Derived(response.data)

(* ======================= properties of DELETE /api/task ================ *)
RECURSIVE SumOver(_, _, _)
SumOver(S, ts, weighted) ==
    IF S = {} THEN 0
    ELSE LET c == CHOOSE x \in S : TRUE
             d == ts[c].end - ts[c].start
         IN  (IF weighted THEN d * ts[c].progress ELSE d) + SumOver(S \ {c}, ts, weighted)

FromKids(e, ts, id) ==
    /\ \E c \in Kids(ts, id) : e.start_date = date_to_str(ts[c].start)
    /\ \A c \in Kids(ts, id) : ts[c].start >= str_to_date(e.start_date)
    /\ \E c \in Kids(ts, id) : e.end_date = date_to_str(ts[c].end)
    /\ \A c \in Kids(ts, id) : ts[c].end <= str_to_date(e.end_date)
    /\ e.type = "project"
    /\ e.progress =
          IF Durationful(ts, id) = {} THEN ts[id].progress
          ELSE Round2(SumOver(Durationful(ts, id), ts, TRUE),
                      SumOver(Durationful(ts, id), ts, FALSE))

FromItself(e, ts, id) ==
    /\ e.start_date = date_to_str(ts[id].start)
    /\ e.end_date = date_to_str(ts[id].end)
    /\ e.progress = ts[id].progress

\* C6: once delete_task has removed a direct child of a project, every
\* get_data is answered, has no entry for the deleted task, and gives the
\* project the start, end and progress of exactly its remaining direct
\* children; a project left without children is answered as kind "task"
\* with its own stored start, end and progress.
C6_DeletedChildLeavesRollup ==
    Answered =>
        /\ "data" \in DOMAIN response
        /\ \A d \in deleted :
              /\ ~HasEntry(d[1])
              /\ (d[2] \in DOMAIN tasks /\ tasks[d[2]].task_type = "project") =>
                    /\ HasEntry(d[2])
                    /\ IF Kids(tasks, d[2]) # {}
                       THEN FromKids(EntryOf(d[2]), tasks, d[2])
                       ELSE EntryOf(d[2]).type = "task" /\ FromItself(EntryOf(d[2]), tasks, d[2])

C6_Witness ==
    /\ Answered
    /\ \E d \in deleted :
          /\ d[2] \in DOMAIN tasks /\ tasks[d[2]].task_type = "project"
          /\ Kids(tasks, d[2]) \ {d[2]} # {}
          /\ Durationful(tasks, d[2]) # {}
          /\ EntryOf(d[2]).start_date # date_to_str(tasks[d[2]].start)
          /\ EntryOf(d[2]).progress # tasks[d[2]].progress

(* ========================= properties of baselines ===================== *)
AnsweredWith(b) == Answered /\ request.baseline_id = {IntStr(b)}
RowsOf(bts, b) == SelectSeq(bts, LAMBDA r : r.baseline_id = b)
Planned(e) == e.planned_start # {} \/ e.planned_end # {}

\* C4 as stated: get_data with the id of a baseline created since the last
\* task write answers planned_start = start_date and planned_end = end_date
\* for every task, projects with children included.
C4_RoundTrip ==
    \A b \in fresh :
        AnsweredWith(b) =>
            /\ EveryTaskAnswered
            /\ \A e \in Entries :
                  e.planned_start = {e.start_date} /\ e.planned_end = {e.end_date}

\* C4 amended: get_data with the id of a baseline created since the last
\* task write answers planned_start = start_date and planned_end = end_date
\* for every task except a project with at least one direct child, whose
\* planned dates are its own stored start and end.
C4_RoundTripStored ==
    \A b \in fresh :
        AnsweredWith(b) =>
            /\ EveryTaskAnswered
            /\ \A e \in Entries :
                  IF ProjectWithKids(e.id)
                  THEN /\ e.planned_start = {date_to_str(tasks[e.id].start)}
                       /\ e.planned_end = {date_to_str(tasks[e.id].end)}
                  ELSE /\ e.planned_start = {e.start_date}
                       /\ e.planned_end = {e.end_date}

C4_Witness ==
    \E b \in fresh :
        /\ AnsweredWith(b)
        /\ \E e, f \in Entries :
              /\ ProjectWithKids(e.id) /\ f.id \in Kids(tasks, e.id) /\ f.id # e.id
              /\ e.planned_start # {e.start_date}
              /\ f.planned_start = {f.start_date} /\ f.planned_end = {f.end_date}

\* C8: get_data with baseline_id = b gives no planned_start and no
\* planned_end to a task created after b was taken, also when the task has
\* the id of a task that b captured and that was deleted since.
C8_NoPlanForLaterTask ==
    \A b \in DOMAIN baselines :
        AnsweredWith(b) =>
            \A e \in Entries : e.id \in createdAfter[b] => ~Planned(e)

\* C10: the rows of a baseline are written once, one per task stored at
\* that moment with that task's stored start and end, and no later request
\* adds, removes or changes any of them; get_data with its id reports those
\* dates for every answered task that has a row.
C10_SnapshotImmutable ==
    [][/\ \A b \in DOMAIN baselines :
             RowsOf(baseline_tasks', b) = RowsOf(baseline_tasks, b)
       /\ \A b \in DOMAIN baselines' \ DOMAIN baselines :
             /\ Len(RowsOf(baseline_tasks', b)) = Cardinality(DOMAIN tasks)
             /\ \A id \in DOMAIN tasks :
                   \E i \in 1..Len(RowsOf(baseline_tasks', b)) :
                       LET r == RowsOf(baseline_tasks', b)[i]
                       IN  /\ r.original_task_id = id
                           /\ r.start = tasks[id].start /\ r.end = tasks[id].end
       /\ \A b \in DOMAIN baselines :
             (request'.op = "get_data" /\ request'.baseline_id = {IntStr(b)}) =>
                 \A i \in 1..Len(RowsOf(baseline_tasks, b)) :
                     LET r == RowsOf(baseline_tasks, b)[i]
                     IN  \A j \in 1..Len(response'.data) :
                             response'.data[j].id = r.original_task_id =>
                                 /\ response'.data[j].planned_start = {date_to_str(r.start)}
                                 /\ response'.data[j].planned_end = {date_to_str(r.end)}
      ]_vars

C10_Witness ==
    /\ AnsweredWith(1)
    /\ Cardinality(DOMAIN baselines) > 1
    /\ DOMAIN links # {}
    /\ \E i \in 1..Len(RowsOf(baseline_tasks, 1)) :
          RowsOf(baseline_tasks, 1)[i].original_task_id \notin DOMAIN tasks
    /\ \E i \in 1..Len(RowsOf(baseline_tasks, 1)), e \in Entries :
          LET r == RowsOf(baseline_tasks, 1)[i]
          IN  /\ e.id = r.original_task_id
              /\ tasks[e.id].end # r.end
              /\ e.planned_end = {date_to_str(r.end)}
              /\ e.id \notin createdAfter[1]

(* ========================= properties of task writes =================== *)
\* C7: update_task on a stored id keeps the stored value of every field the
\* form omits; a form without "parent" leaves parent_id as it is.
C7_PartialUpdate ==
    [][(request'.op = "update_task" /\ response'.action = "updated") =>
          LET id == request'.id
              form == request'.form
          IN  /\ form.text = {} => tasks'[id].name = tasks[id].name
              /\ form.start_date = {} => tasks'[id].start = tasks[id].start
              /\ form.end_date = {} => tasks'[id].end = tasks[id].end
              /\ form.progress = {} => tasks'[id].progress = tasks[id].progress
              /\ form.parent = {} => tasks'[id].parent_id = tasks[id].parent_id
              /\ form.type = {} => tasks'[id].task_type = tasks[id].task_type
              /\ form.assignee = {} => tasks'[id].assignee = tasks[id].assignee
              /\ form.status = {} => tasks'[id].status = tasks[id].status
      ]_vars

\* C9: every stored task ends on or after its start, and every duration
\* get_data answers is >= 0.
C9_EndNotBeforeStart ==
    /\ \A id \in DOMAIN tasks : tasks[id].end >= tasks[id].start
    /\ Answered => \A e \in Entries : e.duration >= 0
====
